---- MODULE Spec2Model ----
(***************************************************************************)
(* InterProFetch: the batch downloader (download_taxonomy.py) and the      *)
(* download checker (check_missing_downloads.py).                          *)
(*                                                                         *)
(* Strings are sequences of tokens.  An accession is <<"IPR", d1, ...>>;   *)
(* the fixed pieces of a file name ("_taxonomy", "_by_cellorg", ".json")   *)
(* are one token each, so building a file name is concatenation and        *)
(* recovering an accession from it is a search for the "_taxonomy" token.  *)
(***************************************************************************)
EXTENDS Integers, Sequences, FiniteSets, TLC

\* ------------------------------------------------------------------ bounds
\* Longest identifier list handed to the downloader.
MaxList == 2
\* Largest value of --max-retries explored (0 .. MaxRetries).
MaxRetries == 2
\* Largest required set and largest directory handed to the checker.
MaxRequired == 2
MaxFiles == 2

\* -------------------------------------------------------- program constants
\* argparse defaults of download_taxonomy.py, in seconds.
RETRY_DELAY == 10
TIMEOUT_DELAY == 61
SLEEP_BETWEEN_REQUESTS == 1

\* missing_list[:10] and extra_list[:5] of the checker
MISSING_SHOWN == 10
EXTRA_SHOWN == 5

\* ----------------------------------------------------------------- strings
Accessions ==
    { <<"IPR", "1">>, <<"IPR", "1", "0">>, <<"IPR", "2">>, <<"IPR", "2", "0">> }

\* The identifiers the downloader's input is drawn from.
DownloadAccessions == { <<"IPR", "1">>, <<"IPR", "2">> }

\* f"{SAVE_DIR}/{ipr_accession}_taxonomy_by_cellorg.json"; the directory is
\* the whole of `files`, so the path is the file's name.
OutputPath(acc) == acc \o <<"_taxonomy", "_by_cellorg", ".json">>

\* The name the commented-out direct query mode saves under.
DirectPath(acc) == acc \o <<"_taxonomy", ".json">>

\* ------------------------------------------------------------- the remote
None == [kind |-> "None"]

\* Bodies a 200 response can carry: a JSON object, a JSON array (valid JSON
\* with no .get), and text that is not JSON.
Bodies == { "object", "array", "notjson" }

\* What one requests.get can do: answer with a status, or raise.
Statuses == { 200, 408, 500 }
RequestExceptions == { "ConnectionError", "Timeout" }

Response(status, body) == [kind |-> "Response", status_code |-> status, body |-> body]

GetOutcomes ==
    { Response(200, b) : b \in Bodies }
        \cup { Response(s, "notjson") : s \in Statuses \ {200} }
        \cup { [kind |-> "raise", exc |-> e] : e \in RequestExceptions }

\* requests.Response.__bool__ is Response.ok: no 4xx/5xx status.
Truthy(r) == r # None /\ r.status_code < 400

\* Mutant: every body parses.
JsonOfLenient(body) == [ok |-> TRUE, doc |-> body]

\* response.json(): the parsed document, or a raised decode error.
JsonOf(body) == IF body = "notjson" THEN [ok |-> FALSE] ELSE [ok |-> TRUE, doc |-> body]

\* data.get('results', []) / data.get('count', 0) need a dict.
HasGet(doc) == doc = "object"

\* pd.read_csv raised: the table cannot be read.
Unreadable == [has_accession_column |-> FALSE, rows |-> {}, readable |-> FALSE]

Range(f) == { f[k] : k \in DOMAIN f }

\* ------------------------------------------------------------ file contents
Partial == [kind |-> "partial"]
Complete(doc) == [kind |-> "complete", doc |-> doc]

VARIABLES
    files,              \* the output directory: file name -> contents
    ipr_accessions,     \* the identifier list of the run
    FORCE_REDOWNLOAD,   \* --force-redownload
    MAX_RETRIES,        \* --max-retries
    i,                  \* position in the list, 1-based (enumerate(..., 1))
    pc,                 \* where the script is
    attempt,            \* safe_request's loop variable
    delay,              \* the argument of the pending time.sleep
    response,           \* what safe_request returned
    log,                \* GETs and sleeps of the current safe_request call
    outcome,            \* per position: PENDING, FETCHING, SKIPPED, SAVED, FAILED
    cause,              \* why the current item failed, until the loop moves on
    requested,          \* accessions a GET was issued for in this run
    files0,             \* `files` when the current run began
    run,                \* 1 for the first run, 2 for the run after it
    INPUT_ARG,          \* the positional argument: a table or one accession
    exit_code,          \* "running", or the status the script ended with
    in_flight,          \* GETs issued and not yet answered
    pauses,             \* per position: sleeps between requests after it
    tsv_file,           \* the checker's table: "unreadable" or its columns
    cpc,                \* where the checker is
    downloaded,         \* main's `downloaded`
    required,           \* main's `required`
    report,             \* what main has printed so far
    args_output,        \* whether --output was given
    output_file,        \* the file --output names
    check_exit          \* "running", or the status the checker ended with

nvars == << INPUT_ARG, exit_code, in_flight, pauses >>
dvars == << ipr_accessions, FORCE_REDOWNLOAD, MAX_RETRIES, i, pc, attempt,
            delay, response, log, outcome, cause, requested, files0, run, nvars >>
ovars == << args_output, output_file, check_exit >>
cvars == << tsv_file, cpc, downloaded, required, report, ovars >>
vars == << files, dvars, cvars >>

\* ============================================================ the downloader
Exists(path) == path \in DOMAIN files

\* Mutant: an existing file is left as it is (mode "x" or "a" for "w").
WriteFileKeepsExisting(path, contents) ==
    IF path \in DOMAIN files THEN files ELSE (path :> contents) @@ files

\* open(path, "w") creates or truncates; a write replaces the contents.
WriteFile(path, contents) == (path :> contents) @@ files

CurrentAccession == ipr_accessions[i]

SetOutcome(o) == [outcome EXCEPT ![i] = o]

\* Mutant: the except clause names ConnectionError only.
CaughtOnlyConnectionError(exc) == exc = "ConnectionError"

\* except requests.exceptions.RequestException
CaughtBySafeRequest(exc) == exc \in RequestExceptions

\* line 197: the for loop is exhausted.
Finish ==
    /\ pc = "loop"
    /\ i > Len(ipr_accessions)
    /\ pc' = "done"
    /\ exit_code' = "0"
    /\ UNCHANGED << files, ipr_accessions, FORCE_REDOWNLOAD, MAX_RETRIES, i, attempt,
                    delay, response, log, outcome, cause, requested, files0, run, cvars,
                    INPUT_ARG, in_flight, pauses >>

\* Mutant: the `not` before FORCE_REDOWNLOAD is dropped.
SkipConditionFlagInverted == Exists(OutputPath(CurrentAccession)) /\ FORCE_REDOWNLOAD

\* Mutant: the existence check looks at the other query mode's file name.
SkipConditionOtherPath == Exists(DirectPath(CurrentAccession)) /\ ~FORCE_REDOWNLOAD

\* One more sleep between requests after position k.
SleptBetween(k) == [pauses EXCEPT ![k] = @ + 1]

\* Mutant: the skip branch falls through to the sleep of line 195.
PausesAfterSkipFallsThrough == SleptBetween(i)

\* line 168: `continue` bypasses the sleep between requests.
PausesAfterSkip == pauses

\* lines 194-195: time.sleep(SLEEP_BETWEEN_REQUESTS) when it is positive.
PausesAfterItem == IF SLEEP_BETWEEN_REQUESTS > 0 THEN SleptBetween(i) ELSE pauses

\* Mutant: the loop index is advanced twice.
NextPositionSkipsOne == i + 2

\* enumerate(ipr_accessions, 1): the next item of the list.
NextPosition == i + 1

\* lines 165-168: the artifact exists and no redownload is forced.
SkipCondition == Exists(OutputPath(CurrentAccession)) /\ ~FORCE_REDOWNLOAD

Skip ==
    /\ pc = "loop"
    /\ i <= Len(ipr_accessions)
    /\ SkipCondition
    /\ outcome' = SetOutcome("SKIPPED")
    /\ i' = NextPosition
    /\ pauses' = PausesAfterSkip
    /\ UNCHANGED << files, ipr_accessions, FORCE_REDOWNLOAD, MAX_RETRIES, pc, attempt,
                    delay, response, log, cause, requested, files0, run, cvars,
                    INPUT_ARG, exit_code, in_flight >>

\* lines 170-174: safe_request(target_url) is called.
StartFetch ==
    /\ pc = "loop"
    /\ i <= Len(ipr_accessions)
    /\ ~SkipCondition
    /\ outcome' = SetOutcome("FETCHING")
    /\ attempt' = 0
    /\ log' = << >>
    /\ response' = None
    /\ pc' = "request"
    /\ UNCHANGED << files, ipr_accessions, FORCE_REDOWNLOAD, MAX_RETRIES, i, delay,
                    cause, requested, files0, run, cvars, nvars >>

\* Mutant: the two delays are swapped.
DelayAfterSwapped(o) ==
    IF o.kind = "Response" /\ o.status_code = 408 THEN "RETRY_DELAY" ELSE "TIMEOUT_DELAY"

\* Mutant: one delay for every failure.
DelayAfterAlwaysRetryDelay(o) == "RETRY_DELAY"

\* The delay safe_request sleeps after an answer that is not a 200.
DelayAfter(o) ==
    IF o.kind = "Response" /\ o.status_code = 408 THEN "TIMEOUT_DELAY" ELSE "RETRY_DELAY"

\* The status as the log messages print it.
StatusText(status) ==
    CASE status = 200 -> "200" [] status = 408 -> "408" [] status = 500 -> "500"

\* What the log keeps of one GET: the status, or the exception's name.
Got(o) == IF o.kind = "Response" THEN StatusText(o.status_code) ELSE o.exc

\* Mutant: range(MAX_RETRIES + 1).
MoreAttemptsOffByOne == attempt <= MAX_RETRIES

\* for attempt in range(MAX_RETRIES): another pass is due.
MoreAttempts == attempt < MAX_RETRIES

\* line 119: requests.get is called and blocks.
Request ==
    /\ pc = "request"
    /\ MoreAttempts
    /\ requested' = requested \cup {CurrentAccession}
    /\ in_flight' = in_flight + 1
    /\ pc' = "await"
    /\ UNCHANGED << files, ipr_accessions, FORCE_REDOWNLOAD, MAX_RETRIES, i, attempt,
                    delay, response, log, outcome, cause, files0, run, cvars,
                    INPUT_ARG, exit_code, pauses >>

\* lines 119-133: requests.get returns or raises; the rest of the pass up to
\* its sleep.
Respond ==
    /\ pc = "await"
    /\ in_flight' = in_flight - 1
    /\ \E o \in GetOutcomes :
         /\ log' = Append(log, [ev |-> "GET", got |-> Got(o)])
         /\ IF o.kind = "Response" /\ o.status_code = 200
               THEN /\ response' = o
                    /\ pc' = "handle"
                    /\ UNCHANGED delay
               ELSE /\ UNCHANGED response
                    /\ delay' = DelayAfter(o)
                    /\ pc' = IF o.kind = "raise" /\ ~CaughtBySafeRequest(o.exc)
                               THEN "crashed" ELSE "sleep"
    /\ UNCHANGED << files, ipr_accessions, FORCE_REDOWNLOAD, MAX_RETRIES, i, attempt,
                    outcome, cause, requested, files0, run, cvars,
                    INPUT_ARG, exit_code, pauses >>

\* lines 125, 129, 133: time.sleep, then the next pass.
Sleep ==
    /\ pc = "sleep"
    /\ log' = Append(log, [ev |-> "sleep", delay |-> delay])
    /\ attempt' = attempt + 1
    /\ pc' = "request"
    /\ UNCHANGED << files, ipr_accessions, FORCE_REDOWNLOAD, MAX_RETRIES, i, delay,
                    response, outcome, cause, requested, files0, run, cvars, nvars >>

\* lines 134-135: range(MAX_RETRIES) is exhausted.
GiveUp ==
    /\ pc = "request"
    /\ ~MoreAttempts
    /\ response' = None
    /\ pc' = "handle"
    /\ UNCHANGED << files, ipr_accessions, FORCE_REDOWNLOAD, MAX_RETRIES, i, attempt,
                    delay, log, outcome, cause, requested, files0, run, cvars, nvars >>

\* Mutant: a failed item ends the loop (`break`).
FailEndsLoop(why) ==
    /\ outcome' = SetOutcome("FAILED")
    /\ cause' = why
    /\ pc' = "done"

\* lines 189 and 191: the item is reported as failed.
Fail(why) ==
    /\ outcome' = SetOutcome("FAILED")
    /\ cause' = why
    /\ pc' = "pause"

\* lines 175-177 and 188-191: the truth test of the response and response.json().
\* safe_request has returned: its locals and the record of its call are gone.
Handle ==
    /\ pc = "handle"
    /\ IF ~Truthy(response)
          THEN Fail("retries")
          ELSE IF ~JsonOf(response.body).ok
                 THEN Fail("decode")
                 ELSE UNCHANGED << outcome, cause >> /\ pc' = "open"
    /\ attempt' = 0
    /\ delay' = "RETRY_DELAY"
    /\ log' = << >>
    /\ UNCHANGED << files, ipr_accessions, FORCE_REDOWNLOAD, MAX_RETRIES, i,
                    response, requested, files0, run, cvars, nvars >>

\* What open(output_path, "w") leaves of the file: created or truncated.
Opened == Partial

\* line 178: open(output_path, "w") succeeds, or raises OSError.
Open ==
    /\ pc = "open"
    /\ \/ /\ files' = WriteFile(OutputPath(CurrentAccession), Opened)
          /\ pc' = "dump"
          /\ UNCHANGED << outcome, cause >>
       \/ /\ Fail("write")
          /\ UNCHANGED files
    /\ UNCHANGED << ipr_accessions, FORCE_REDOWNLOAD, MAX_RETRIES, i, attempt,
                    delay, response, log, requested, files0, run, cvars, nvars >>

\* What json.dump and the close of the file leave in it.
Dumped(doc) == Complete(doc)

\* line 179: json.dump writes the document, or the write raises part-way.
Dump ==
    /\ pc = "dump"
    /\ \/ /\ files' = WriteFile(OutputPath(CurrentAccession),
                                 Dumped(JsonOf(response.body).doc))
          /\ pc' = "stats"
          /\ UNCHANGED << outcome, cause >>
       \/ /\ Fail("write")
          /\ UNCHANGED files
    /\ UNCHANGED << ipr_accessions, FORCE_REDOWNLOAD, MAX_RETRIES, i, attempt,
                    delay, response, log, requested, files0, run, cvars, nvars >>

\* lines 182-189: data.get(...) raises on a document that is no dict, after
\* the file is written; the except clause reports the item as failed.
Stats ==
    /\ pc = "stats"
    /\ IF HasGet(JsonOf(response.body).doc)
          THEN outcome' = SetOutcome("SAVED") /\ pc' = "pause" /\ UNCHANGED cause
          ELSE Fail("stats")
    /\ UNCHANGED << files, ipr_accessions, FORCE_REDOWNLOAD, MAX_RETRIES, i, attempt,
                    delay, response, log, requested, files0, run, cvars, nvars >>

\* lines 193-195: the sleep between requests, then the next item.  `response`
\* is not read again before safe_request's next return assigns it.
Pause ==
    /\ pc = "pause"
    /\ pauses' = PausesAfterItem
    /\ i' = NextPosition
    /\ pc' = "loop"
    /\ response' = None
    /\ cause' = "none"
    /\ UNCHANGED << files, ipr_accessions, FORCE_REDOWNLOAD, MAX_RETRIES, attempt,
                    delay, log, outcome, requested, files0, run, cvars,
                    INPUT_ARG, exit_code, in_flight >>

\* The same command is run again over the directory the first run left.
Rerun ==
    /\ pc = "done"
    /\ run = 1
    /\ run' = 2
    /\ i' = 1
    /\ pc' = "loop"
    /\ outcome' = [k \in 1..Len(ipr_accessions) |-> "PENDING"]
    /\ requested' = {}
    /\ files0' = files
    /\ attempt' = 0
    /\ delay' = "RETRY_DELAY"
    /\ response' = None
    /\ log' = << >>
    /\ exit_code' = "running"
    /\ pauses' = [k \in 1..Len(ipr_accessions) |-> 0]
    /\ UNCHANGED << files, ipr_accessions, FORCE_REDOWNLOAD, MAX_RETRIES, cause, cvars,
                    INPUT_ARG, in_flight >>

\* Lists of at most n identifiers.
ListsUpTo(n) == UNION { [1..k -> DownloadAccessions] : k \in 0..n }

\* What the positional argument can be: one accession, a table with its
\* Accession column, a table without that column, a file that cannot be read.
Literal(acc) == [ends_tsv_txt |-> FALSE, isfile |-> FALSE, acc |-> acc]
Table(rows) ==
    [ends_tsv_txt |-> TRUE, isfile |-> TRUE, readable |-> TRUE,
     has_accession_column |-> TRUE, rows |-> rows]
TableWithoutColumn ==
    [ends_tsv_txt |-> TRUE, isfile |-> TRUE, readable |-> TRUE,
     has_accession_column |-> FALSE, rows |-> << >>]
\* An existing file pd.read_csv cannot read, whatever its name.
UnreadableFile ==
    [ends_tsv_txt |-> FALSE, isfile |-> TRUE, readable |-> FALSE,
     has_accession_column |-> FALSE, rows |-> << >>]
\* A name ending in .tsv or .txt with no file behind it.
MissingTable ==
    [ends_tsv_txt |-> TRUE, isfile |-> FALSE, readable |-> FALSE,
     has_accession_column |-> FALSE, rows |-> << >>]

InputArgs ==
    { Literal(a) : a \in DownloadAccessions }
        \cup { Table(rows) : rows \in ListsUpTo(MaxList) }
        \cup { TableWithoutColumn, UnreadableFile, MissingTable }

\* line 138: the argument is taken for a file when it ends in .tsv or .txt or
\* names an existing file; anything else is taken for one accession.
IsFileInput(arg) == arg.ends_tsv_txt \/ arg.isfile

\* Mutant: only a failing read is an error, a missing column is not.
TableLoadsWithoutColumn(arg) == arg.readable

\* lines 142-143: pd.read_csv and df['Accession'] raise nothing.
TableLoads(arg) == arg.readable /\ arg.has_accession_column

\* lines 138-151: the identifier list is read, or the script exits with 1.
Load ==
    /\ pc = "load"
    /\ IF IsFileInput(INPUT_ARG) /\ ~TableLoads(INPUT_ARG)
          THEN /\ pc' = "exited"
               /\ exit_code' = "1"
               /\ UNCHANGED << ipr_accessions, outcome, pauses >>
          ELSE /\ ipr_accessions' = IF IsFileInput(INPUT_ARG)
                                       THEN INPUT_ARG.rows ELSE << INPUT_ARG.acc >>
               /\ outcome' = [k \in 1..Len(ipr_accessions') |-> "PENDING"]
               /\ pauses' = [k \in 1..Len(ipr_accessions') |-> 0]
               /\ pc' = "loop"
               /\ UNCHANGED exit_code
    /\ UNCHANGED << files, FORCE_REDOWNLOAD, MAX_RETRIES, i, attempt, delay, response,
                    log, cause, requested, files0, run, cvars, INPUT_ARG, in_flight >>

\* Directories an earlier use of the downloader can have left: artifacts
\* holding a document the remote answered with at that time.
InitialDirectories ==
    UNION { [ {OutputPath(a) : a \in S} -> {Complete("stale")} ]
              : S \in SUBSET DownloadAccessions }

\* Nothing printed yet.
NoReport ==
    [ completedCount |-> -1, missingCount |-> -1, completedPct |-> -1,
      missingPct |-> -1, missing_list |-> << >>, extra_list |-> << >>,
      missing_shown |-> << >>, missing_more |-> 0,
      extra_shown |-> << >>, extra_more |-> 0 ]

\* The file --output names has not been opened.
NoOutputFile == [ state |-> "untouched", lines |-> << >> ]

CheckerIdle ==
    /\ tsv_file = Unreadable
    /\ cpc = "idle"
    /\ downloaded = {}
    /\ required = {}
    /\ report = NoReport
    /\ args_output = FALSE
    /\ output_file = NoOutputFile
    /\ check_exit = "running"

Init ==
    /\ files \in InitialDirectories
    /\ INPUT_ARG \in InputArgs
    /\ ipr_accessions = << >>
    /\ FORCE_REDOWNLOAD \in BOOLEAN
    /\ MAX_RETRIES \in 0..MaxRetries
    /\ i = 1
    /\ pc = "load"
    /\ exit_code = "running"
    /\ in_flight = 0
    /\ pauses = << >>
    /\ attempt = 0
    /\ delay = "RETRY_DELAY"
    /\ response = None
    /\ log = << >>
    /\ outcome = << >>
    /\ cause = "none"
    /\ requested = {}
    /\ files0 = files
    /\ run = 1
    /\ CheckerIdle

Next ==
    \/ Load
    \/ Finish
    \/ Skip
    \/ StartFetch
    \/ Request
    \/ Respond
    \/ Sleep
    \/ GiveUp
    \/ Handle
    \/ Open
    \/ Dump
    \/ Stats
    \/ Pause
    \/ Rerun

Spec == Init /\ [][Next]_vars

\* The process is terminated (a signal, a power cut) between two steps: what it
\* held in memory is gone, the directory stays as it is.
Interrupt ==
    /\ pc \notin { "done", "exited", "killed", "crashed" }
    /\ pc' = "killed"
    /\ exit_code' = "killed"
    /\ attempt' = 0
    /\ delay' = "RETRY_DELAY"
    /\ response' = None
    /\ log' = << >>
    /\ cause' = "none"
    /\ in_flight' = 0
    /\ UNCHANGED << files, ipr_accessions, FORCE_REDOWNLOAD, MAX_RETRIES, i, outcome,
                    requested, files0, run, cvars, INPUT_ARG, pauses >>

InterruptNext == Next \/ Interrupt

InterruptSpec == Init /\ [][InterruptNext]_vars

\* One run of the script, from its start to its end.
RunNext ==
    \/ Load
    \/ Finish
    \/ Skip
    \/ StartFetch
    \/ Request
    \/ Respond
    \/ Sleep
    \/ GiveUp
    \/ Handle
    \/ Open
    \/ Dump
    \/ Stats
    \/ Pause

\* Every step of the script ends: requests.get is called with a timeout,
\* time.sleep returns, and the file operations return or raise.
FairSpec == Init /\ [][RunNext]_vars /\ WF_vars(RunNext)

\* =============================================================== the checker
\* Path.glob("*_taxonomy*.json"): "_taxonomy" somewhere, ".json" at the end.
GlobMatches(name) ==
    /\ Len(name) >= 1
    /\ name[Len(name)] = ".json"
    /\ \E k \in 1..(Len(name) - 1) : name[k] = "_taxonomy"

\* Path.stem: the name without its last suffix.
Stem(name) == SubSeq(name, 1, Len(name) - 1)

\* filename.split('_taxonomy')[0]: what precedes the first "_taxonomy".
BeforeFirstTaxonomy(stem) ==
    LET first == CHOOSE k \in 1..Len(stem) :
                     /\ stem[k] = "_taxonomy"
                     /\ \A j \in 1..(k - 1) : stem[j] # "_taxonomy"
    IN  SubSeq(stem, 1, first - 1)

\* lines 28-42
get_downloaded_accessions(dir) ==
    { BeforeFirstTaxonomy(Stem(name)) :
        name \in { n \in dir : GlobMatches(n) /\ "_taxonomy" \in Range(Stem(n)) } }

\* lines 54-68: an unreadable table and a table without the column both give
\* the empty set.
get_required_accessions(tsv) ==
    IF tsv = Unreadable THEN {}
    ELSE IF ~tsv.has_accession_column THEN {}
    ELSE tsv.rows

\* Code points: digits sort before upper-case letters.
TokenRank(t) ==
    CASE t = "0" -> 48 [] t = "1" -> 49 [] t = "2" -> 50 [] t = "IPR" -> 73
      [] OTHER -> 95

\* Python's str <: the first differing position decides, a proper prefix is smaller.
StrLess(a, b) ==
    \E k \in 1..(Len(b)) :
        /\ \A j \in 1..(k - 1) : j <= Len(a) /\ a[j] = b[j]
        /\ \/ k = Len(a) + 1
           \/ k <= Len(a) /\ TokenRank(a[k]) < TokenRank(b[k])

RECURSIVE sorted(_)
\* sorted(list(s)): ascending by StrLess.
sorted(s) ==
    IF s = {} THEN << >>
    ELSE LET least == CHOOSE x \in s : \A y \in s \ {x} : StrLess(x, y)
         IN  << least >> \o sorted(s \ {least})

\* What f"{x/y*100:.1f}" prints, in tenths of a percent (no ties arise for
\* the set sizes explored).
PctTenths(x, y) == (2000 * x + y) \div (2 * y)

\* line 104
CheckScan ==
    /\ cpc = "scan"
    /\ downloaded' = get_downloaded_accessions(DOMAIN files)
    /\ cpc' = "read"
    /\ UNCHANGED << files, dvars, tsv_file, required, report, ovars >>

\* line 108
CheckRead ==
    /\ cpc = "read"
    /\ required' = get_required_accessions(tsv_file)
    /\ cpc' = "summary"
    /\ UNCHANGED << files, dvars, tsv_file, downloaded, report, ovars >>

\* True when the divisions of lines 118-119 can be carried out.
CanDivideBy(n) == n # 0

\* lines 112-119: the two set operations, the counts and the percentages; the
\* division raises ZeroDivisionError on an empty required set.
CheckSummary ==
    /\ cpc = "summary"
    /\ LET missing == required \ downloaded
           completed == required \cap downloaded
           n == Cardinality(required)
       IN  IF CanDivideBy(n)
             THEN /\ report' = [ report EXCEPT
                                   !.completedCount = Cardinality(completed),
                                   !.missingCount = Cardinality(missing),
                                   !.completedPct = PctTenths(Cardinality(completed), n),
                                   !.missingPct = PctTenths(Cardinality(missing), n) ]
                  /\ cpc' = "missing"
                  /\ UNCHANGED check_exit
             ELSE /\ cpc' = "crashed"
                  /\ check_exit' = "1"
                  /\ UNCHANGED report
    /\ UNCHANGED << files, dvars, tsv_file, downloaded, required, args_output, output_file >>

\* l[:n]
Take(l, n) == SubSeq(l, 1, IF n < Len(l) THEN n ELSE Len(l))

\* len(l) - n when the "... and N more" line is printed, else 0
More(l, n) == IF Len(l) > n THEN Len(l) - n ELSE 0

SavedLinesDisplayedOnly(missing_list) == Take(missing_list, MISSING_SHOWN)

\* lines 135-136: one line per element of missing_list
SavedLines(missing_list) == missing_list

\* lines 132-139: the file after the try block. open may raise (nothing
\* written), a write may raise (the lines before it are in the file), or the
\* with block ends and all lines are in the file.
SaveOutcomes(missing_list) ==
    { [ state |-> "saved", lines |-> SavedLines(missing_list) ],
      [ state |-> "failed", lines |-> << >> ] }
        \cup { [ state |-> "failed", lines |-> SubSeq(SavedLines(missing_list), 1, k) ]
                   : k \in 1..(Len(SavedLines(missing_list)) - 1) }

\* lines 121-142
CheckMissing ==
    /\ cpc = "missing"
    /\ LET missing == required \ downloaded
           missing_list == sorted(missing)
       IN  IF missing # {}
             THEN /\ report' = [ report EXCEPT
                                   !.missing_list = missing_list,
                                   !.missing_shown = Take(missing_list, MISSING_SHOWN),
                                   !.missing_more = More(missing_list, MISSING_SHOWN) ]
                  /\ IF args_output
                       THEN output_file' \in SaveOutcomes(missing_list)
                       ELSE UNCHANGED output_file
             ELSE /\ report' = [ report EXCEPT !.missing_list = << >> ]
                  /\ UNCHANGED output_file
    /\ cpc' = "extra"
    /\ UNCHANGED << files, dvars, tsv_file, downloaded, required, args_output, check_exit >>

\* lines 144-152
CheckExtra ==
    /\ cpc = "extra"
    /\ LET extra == downloaded \ required
           extra_list == sorted(extra)
       IN  report' = IF extra # {}
                       THEN [ report EXCEPT
                                !.extra_list = extra_list,
                                !.extra_shown = Take(extra_list, EXTRA_SHOWN),
                                !.extra_more = More(extra_list, EXTRA_SHOWN) ]
                       ELSE [ report EXCEPT !.extra_list = << >> ]
    /\ cpc' = "done"
    /\ check_exit' = "0"
    /\ UNCHANGED << files, dvars, tsv_file, downloaded, required, args_output, output_file >>

\* File names a checked directory can hold: artifacts of either query mode,
\* and names the glob must pass over.
CandidateNames ==
    { OutputPath(a) : a \in Accessions } \cup { DirectPath(a) : a \in Accessions }
        \cup { <<"IPR", "1", ".json">>, <<"IPR", "2", "_taxonomy", ".txt">> }

SubsetsUpTo(S, n) == { T \in SUBSET S : Cardinality(T) <= n }

CheckedDirectories ==
    UNION { [ D -> {Complete("object")} ] : D \in SubsetsUpTo(CandidateNames, MaxFiles) }

Tables ==
    { Unreadable, [has_accession_column |-> FALSE, rows |-> {}] }
        \cup { [has_accession_column |-> TRUE, rows |-> R] :
                  R \in SubsetsUpTo(Accessions, MaxRequired) }

DownloaderIdle ==
    /\ ipr_accessions = << >>
    /\ FORCE_REDOWNLOAD = FALSE
    /\ MAX_RETRIES = 0
    /\ i = 1
    /\ pc = "done"
    /\ attempt = 0
    /\ delay = "RETRY_DELAY"
    /\ response = None
    /\ log = << >>
    /\ outcome = << >>
    /\ cause = "none"
    /\ requested = {}
    /\ files0 = files
    /\ run = 2
    /\ INPUT_ARG = Table(<< >>)
    /\ exit_code = "0"
    /\ in_flight = 0
    /\ pauses = << >>

Digits == { "0", "1", "2" }

\* A table with more rows than the display shows.
ManyRequired ==
    { <<"IPR", "0", a, b>> : a, b \in Digits } \cup { <<"IPR", "1", "0", b>> : b \in Digits }

\* Accessions of files the table does not list, more than the display shows.
ManyExtra == { <<"IPR", "2", a, b>> : a \in { "0", "1" }, b \in Digits }

BigTable == [ has_accession_column |-> TRUE, rows |-> ManyRequired ]

BigDirectory ==
    [ n \in { OutputPath(a) : a \in ManyExtra \cup { <<"IPR", "0", "0", "0">> } }
        |-> Complete("object") ]

CheckInit ==
    /\ files \in CheckedDirectories \cup { BigDirectory }
    /\ tsv_file \in Tables \cup { BigTable }
    /\ cpc = "scan"
    /\ downloaded = {}
    /\ required = {}
    /\ report = NoReport
    /\ args_output \in BOOLEAN
    /\ output_file = NoOutputFile
    /\ check_exit = "running"
    /\ DownloaderIdle

CheckNext ==
    \/ CheckScan
    \/ CheckRead
    \/ CheckSummary
    \/ CheckMissing
    \/ CheckExtra

CheckSpec == CheckInit /\ [][CheckNext]_vars

\* The table that lists what the concurrent download run was given.
TableOfRun == [ has_accession_column |-> TRUE, rows |-> DownloadAccessions ]

\* A download run, and one run of the checker on the same directory started
\* at any moment of it.
ConcurrentInit ==
    /\ files \in InitialDirectories
    /\ INPUT_ARG \in InputArgs
    /\ ipr_accessions = << >>
    /\ FORCE_REDOWNLOAD \in BOOLEAN
    /\ MAX_RETRIES \in 0..MaxRetries
    /\ i = 1
    /\ pc = "load"
    /\ exit_code = "running"
    /\ in_flight = 0
    /\ pauses = << >>
    /\ attempt = 0
    /\ delay = "RETRY_DELAY"
    /\ response = None
    /\ log = << >>
    /\ outcome = << >>
    /\ cause = "none"
    /\ requested = {}
    /\ files0 = files
    /\ run = 2
    /\ tsv_file = TableOfRun
    /\ cpc = "scan"
    /\ downloaded = {}
    /\ required = {}
    /\ report = NoReport
    /\ args_output \in BOOLEAN
    /\ output_file = NoOutputFile
    /\ check_exit = "running"

ConcurrentNext ==
    \/ Load
    \/ Finish
    \/ Skip
    \/ StartFetch
    \/ Request
    \/ Respond
    \/ Sleep
    \/ GiveUp
    \/ Handle
    \/ Open
    \/ Dump
    \/ Stats
    \/ Pause
    \/ CheckScan
    \/ CheckRead
    \/ CheckSummary
    \/ CheckMissing
    \/ CheckExtra

ConcurrentSpec == ConcurrentInit /\ [][ConcurrentNext]_vars

\* What pd.read_csv of the checker makes of the downloader's input file.
TsvOf(arg) ==
    IF ~arg.readable THEN Unreadable
    ELSE [ has_accession_column |-> arg.has_accession_column, rows |-> Range(arg.rows) ]

\* The checker is started on the table and the directory of a download run
\* that has ended.
StartCheck ==
    /\ pc = "exited" \/ (pc = "done" /\ run = 2)
    /\ cpc = "idle"
    /\ IsFileInput(INPUT_ARG)
    /\ tsv_file' = TsvOf(INPUT_ARG)
    /\ args_output' \in BOOLEAN
    /\ cpc' = "scan"
    /\ UNCHANGED << files, dvars, downloaded, required, report, output_file, check_exit >>

PipelineNext == Next \/ StartCheck \/ CheckNext

PipelineSpec == Init /\ [][PipelineNext]_vars

\* ================================================================ properties
Terminal == { "SKIPPED", "SAVED", "FAILED" }

Positions == 1..Len(ipr_accessions)

\* The answers the GETs of the current safe_request call received, in order.
Gots(l) ==
    LET gets == SelectSeq(l, LAMBDA e : e.ev = "GET")
    IN  [k \in 1..Len(gets) |-> gets[k].got]

\* The delays the current safe_request call has slept, in order.
Delays(l) ==
    LET sleeps == SelectSeq(l, LAMBDA e : e.ev = "sleep")
    IN  [k \in 1..Len(sleeps) |-> sleeps[k].delay]

Seconds(d) == IF d = "TIMEOUT_DELAY" THEN TIMEOUT_DELAY ELSE RETRY_DELAY

RECURSIVE Elapsed(_)
\* Seconds slept by the current safe_request call.
Elapsed(ds) == IF ds = << >> THEN 0 ELSE Seconds(Head(ds)) + Elapsed(Tail(ds))

Get(s) == [ev |-> "GET", got |-> s]
Slept(d) == [ev |-> "sleep", delay |-> d]

\* C1: without forced redownload, a file present when the run began keeps its
\* contents, no GET is issued for its accession, and every position of the
\* list naming that accession goes from PENDING to SKIPPED.
C1_ExistingArtifactSkipped ==
    ~FORCE_REDOWNLOAD =>
        \A a \in DownloadAccessions :
            OutputPath(a) \in DOMAIN files0 =>
                /\ OutputPath(a) \in DOMAIN files
                /\ files[OutputPath(a)] = files0[OutputPath(a)]
                /\ a \notin requested
                /\ \A k \in Positions :
                       ipr_accessions[k] = a =>
                           /\ outcome[k] \in { "PENDING", "SKIPPED" }
                           /\ k < i => outcome[k] = "SKIPPED"

\* A first run that skipped one accession and issued a GET for another.
C1_Witness ==
    /\ ~FORCE_REDOWNLOAD
    /\ run = 1
    /\ pc = "done"
    /\ \E k \in Positions : outcome[k] = "SKIPPED"
    /\ requested # {}

\* C2: when every GET of a safe_request call was answered 500, the call has
\* issued exactly MAX_RETRIES GETs by its return, each followed by one sleep of
\* RETRY_DELAY (so exactly one such sleep lies between consecutive GETs and no
\* sleep is of TIMEOUT_DELAY), and it returns None.
C2_Always500 ==
    (pc = "handle" /\ \A k \in DOMAIN Gots(log) : Gots(log)[k] = "500") =>
        /\ Len(Gots(log)) = MAX_RETRIES
        /\ Len(log) = 2 * MAX_RETRIES
        /\ \A k \in 1..MAX_RETRIES :
               /\ log[2 * k - 1] = Get("500")
               /\ log[2 * k] = Slept("RETRY_DELAY")
        /\ response = None

\* safe_request returned after two or more GETs, all answered 500.
C2_Witness ==
    /\ pc = "handle"
    /\ MAX_RETRIES >= 2
    /\ Len(Gots(log)) >= 2
    /\ \A k \in DOMAIN Gots(log) : Gots(log)[k] = "500"

\* C3: when the first GET of a call is answered 408 and the second 200 (which
\* needs MAX_RETRIES >= 2), the call returns the 200 response after exactly
\* those two GETs, and it has slept exactly one TIMEOUT_DELAY and no
\* RETRY_DELAY.
C3_TimeoutThenSuccess ==
    (Len(Gots(log)) >= 2 /\ Gots(log)[1] = "408" /\ Gots(log)[2] = "200") =>
        /\ MAX_RETRIES >= 2
        /\ pc = "handle"
        /\ response # None
        /\ response.status_code = 200
        /\ log = << Get("408"), Slept("TIMEOUT_DELAY"), Get("200") >>
        /\ Delays(log) = << "TIMEOUT_DELAY" >>
        /\ Elapsed(Delays(log)) = TIMEOUT_DELAY

\* safe_request returned a 200 response obtained after a 408.
C3_Witness ==
    /\ pc = "handle"
    /\ Gots(log) = << "408", "200" >>
    /\ Truthy(response)

\* C7: in a run without forced redownload, an accession reported as failed
\* because the retries were exhausted, the body was not JSON or the write
\* failed has no artifact file afterwards.
C7_FailedLeavesNoArtifact ==
    ( /\ ~FORCE_REDOWNLOAD
      /\ pc = "pause"
      /\ outcome[i] = "FAILED"
      /\ cause \in { "retries", "decode", "write" } )
        => ~Exists(OutputPath(CurrentAccession))

\* No exception has left safe_request; what it hands back is None or a 200
\* response; every position the loop has passed has its outcome.
C8_Inv ==
    /\ pc # "crashed"
    /\ pc = "handle" =>
           \/ response = None
           \/ response.kind = "Response" /\ response.status_code = 200
    /\ \A k \in Positions : k < i => outcome[k] \in Terminal

\* After None the item is reported failed, and the loop then moves on.
C8_Step ==
    /\ (pc = "handle" /\ response = None) =>
           (pc' = "pause" /\ outcome'[i] = "FAILED" /\ cause' = "retries" /\ i' = i)
    /\ (pc = "pause" /\ outcome[i] = "FAILED") => (pc' = "loop" /\ i' = i + 1)

\* C8: the invariant above holds in every state and every step taken after a
\* None result records the failure and advances the loop; no run reaches the
\* state in which an exception has left safe_request.
C8_NeverRaisesAndContinues == []C8_Inv /\ [][C8_Step]_vars

\* The loop is at the item after one whose GETs raised until the retries ran out.
C8_Witness ==
    /\ pc = "request"
    /\ i = 2
    /\ outcome[1] = "FAILED"
    /\ ipr_accessions[1] \in requested
    /\ "Timeout" \in Range(Gots(log))

\* C9 as claimed: after the second run without forced redownload the
\* directory is what the first run left.
C9_TwoRunsSameAsOne ==
    (~FORCE_REDOWNLOAD /\ run = 2 /\ pc = "done") => files = files0

\* C9 amended: the second run leaves every file the first run left as it
\* was, creates files only for listed accessions that had none, and when every
\* listed accession had a file it issues no GET and changes nothing.
C9_SecondRunOnlyAdds ==
    (~FORCE_REDOWNLOAD /\ run = 2) =>
        /\ \A p \in DOMAIN files0 : p \in DOMAIN files /\ files[p] = files0[p]
        /\ \A p \in DOMAIN files \ DOMAIN files0 :
               \E k \in Positions : p = OutputPath(ipr_accessions[k])
        /\ (\A k \in Positions : OutputPath(ipr_accessions[k]) \in DOMAIN files0) =>
               (files = files0 /\ requested = {})

\* The second run skipped one accession and saved one the first run had failed.
C9_Witness ==
    /\ ~FORCE_REDOWNLOAD
    /\ run = 2
    /\ pc = "done"
    /\ \E k \in Positions : outcome[k] = "SKIPPED"
    /\ \E k \in Positions :
           /\ outcome[k] = "SAVED"
           /\ OutputPath(ipr_accessions[k]) \notin DOMAIN files0
           /\ files[OutputPath(ipr_accessions[k])] = Complete("object")

\* C10: with forced redownload no position is ever SKIPPED, every position
\* the loop has passed went through safe_request (and a GET, when MAX_RETRIES
\* allows one), and an item just reported SAVED has as its file exactly the
\* document of the response.
C10_ForceRefetches ==
    FORCE_REDOWNLOAD =>
        /\ \A k \in Positions : outcome[k] # "SKIPPED"
        /\ \A k \in Positions : k < i =>
               /\ outcome[k] \in { "SAVED", "FAILED" }
               /\ MAX_RETRIES >= 1 => ipr_accessions[k] \in requested
        /\ (pc = "pause" /\ outcome[i] = "SAVED") =>
               /\ Exists(OutputPath(CurrentAccession))
               /\ files[OutputPath(CurrentAccession)] = Complete(JsonOf(response.body).doc)

\* A forced run saved over an artifact that existed when the run began.
C10_Witness ==
    /\ FORCE_REDOWNLOAD
    /\ pc = "pause"
    /\ outcome[i] = "SAVED"
    /\ OutputPath(CurrentAccession) \in DOMAIN files0
    /\ files0[OutputPath(CurrentAccession)] = Complete("stale")
    /\ files[OutputPath(CurrentAccession)] = Complete("object")

\* C11: every position the loop has passed was followed by exactly one sleep
\* between requests when it ended SAVED or FAILED and by none when it was
\* SKIPPED; no such sleep is taken for a position before the loop leaves it.
C11_PauseAfterFetchedOnly ==
    \A k \in Positions :
        /\ k < i => pauses[k] = IF outcome[k] \in { "SAVED", "FAILED" } THEN 1 ELSE 0
        /\ k >= i => pauses[k] = 0

\* A run that skipped its first item and fetched its second.
C11_Witness ==
    /\ pc = "done"
    /\ Len(ipr_accessions) = 2
    /\ outcome[1] = "SKIPPED"
    /\ outcome[2] \in { "SAVED", "FAILED" }
    /\ pauses = << 0, 1 >>

\* Where the script is between the call of safe_request and the item's outcome.
FetchStates == { "request", "await", "sleep", "handle", "open", "dump", "stats" }

\* C12: items are handled in list order, one at a time: every position
\* before the current one has its terminal outcome, every position after it is
\* still PENDING, GETs were issued only for accessions at positions up to the
\* current one, and at most one GET is unanswered, which belongs to the
\* current position.
C12_InOrderOneAtATime ==
    /\ \A k \in Positions :
           /\ k < i => outcome[k] \in Terminal
           /\ k > i => outcome[k] = "PENDING"
    /\ requested \subseteq { ipr_accessions[k] : k \in { j \in Positions : j <= i } }
    /\ in_flight \in { 0, 1 }
    /\ in_flight = 1 <=> pc = "await"
    /\ pc \in FetchStates => (i \in Positions /\ outcome[i] = "FETCHING")

\* A GET for the second item is unanswered; the first item was fetched.
C12_Witness ==
    /\ in_flight = 1
    /\ i = 2
    /\ outcome[1] \in { "SAVED", "FAILED" }
    /\ ipr_accessions[1] # ipr_accessions[2]

\* C13: when a run is terminated while it handles an accession, the file of
\* that accession is absent or completely written, so that the existence
\* check of the next run cannot take an unfinished file for a finished one.
C13_InterruptLeavesNoPartialFile ==
    (pc = "killed" /\ i \in Positions /\ outcome[i] = "FETCHING") =>
        \/ ~Exists(OutputPath(CurrentAccession))
        \/ files[OutputPath(CurrentAccession)].kind = "complete"

\* ---- the checker
IsAscending(l) == \A j, k \in 1..Len(l) : j < k => StrLess(l[j], l[k])

\* The list l holds exactly the elements of s, ascending.
IsSortedListOf(l, s) == Range(l) = s /\ Len(l) = Cardinality(s) /\ IsAscending(l)

ReportMatchesSets ==
    /\ IsSortedListOf(report.missing_list, required \ downloaded)
    /\ IsSortedListOf(report.extra_list, downloaded \ required)
    /\ report.completedCount = Cardinality(required \cap downloaded)
    /\ report.missingCount + report.completedCount = Cardinality(required)

CheckEnded == cpc \in { "done", "crashed" }

\* C4: for every required set and completed set, the run of the checker ends
\* with missing_list = sorted(R - C), extra_list = sorted(C - R),
\* completedCount = |R & C| and missingCount + completedCount = |R|.
C4_ReportMatchesSets == CheckEnded => ReportMatchesSets

\* The same for the runs whose required set is not empty.
C4_NonEmptyRequired == (CheckEnded /\ required # {}) => (cpc = "done" /\ ReportMatchesSets)

\* C5: a run on an empty required set ends without a division by zero and
\* reports completedPct = 100.0 and missingPct = 0.0.
C5_EmptyRequiredNoDivisionByZero ==
    (CheckEnded /\ required = {}) =>
        /\ cpc = "done"
        /\ report.completedPct = 1000
        /\ report.missingPct = 0

\* The file name of accession a in each suffix family.
FamilyPath(a, family) == IF family = "_taxonomy" THEN DirectPath(a) ELSE OutputPath(a)

SuffixFamilies == { "_taxonomy", "_taxonomy_by_cellorg" }

\* The checker has one enumeration, which serves both families.
CompletedFor(family) == downloaded

\* C6: an accession whose only file belongs to the other family is not
\* counted as completed for a family.
C6_NoCrossFamilyCount ==
    cpc # "scan" =>
        \A family \in SuffixFamilies : \A a \in Accessions :
            ( /\ FamilyPath(a, family) \notin DOMAIN files
              /\ \E other \in SuffixFamilies \ {family} :
                     FamilyPath(a, other) \in DOMAIN files )
                => a \notin CompletedFor(family)

\* C14: a scan of the directory made while the download run is between the
\* opening of an accession's file and the end of its write does not count
\* that accession as downloaded.
C14_MidWriteNotCounted ==
    [][ (cpc = "scan" /\ cpc' = "read" /\ pc = "dump"
            /\ files[OutputPath(CurrentAccession)].kind = "partial")
            => CurrentAccession \notin downloaded' ]_vars

\* The other half of it: a scan made after a write has finished counts the
\* accession.
C14_FinishedWriteCounted ==
    [][ (cpc = "scan" /\ cpc' = "read") =>
            \A k \in Positions :
                outcome[k] = "SAVED" => ipr_accessions[k] \in downloaded' ]_vars

\* C15: with --output given and a non-empty missing set, the file that was
\* saved holds every accession of required - downloaded once, ascending,
\* however many they are; the display shows at most 10 and 5 of them.
C15_SavedListIsComplete ==
    /\ ( /\ cpc \in { "extra", "done" }
         /\ args_output
         /\ required \ downloaded # {}
         /\ output_file.state = "saved" )
           => IsSortedListOf(output_file.lines, required \ downloaded)
    /\ Len(report.missing_shown) <= MISSING_SHOWN
    /\ Len(report.extra_shown) <= EXTRA_SHOWN

C15_Witness ==
    /\ cpc = "done"
    /\ args_output
    /\ output_file.state = "saved"
    /\ Len(output_file.lines) > MISSING_SHOWN
    /\ Len(report.missing_shown) = MISSING_SHOWN
    /\ report.missing_more = Len(output_file.lines) - MISSING_SHOWN
    /\ Len(report.extra_list) > EXTRA_SHOWN
    /\ Len(report.extra_shown) = EXTRA_SHOWN

OutcomePath ==
    { << "PENDING", "SKIPPED" >>, << "PENDING", "FETCHING" >>,
      << "FETCHING", "SAVED" >>, << "FETCHING", "FAILED" >> }

\* C17: a download run ends; while it runs every position's outcome moves
\* only along PENDING -> SKIPPED, PENDING -> FETCHING -> SAVED and
\* PENDING -> FETCHING -> FAILED; at its end every position has one terminal
\* outcome, the positions after a FAILED one included.
C17_TerminatesWithTerminalOutcomes ==
    /\ (pc = "load") ~> (pc \in { "done", "exited" })
    /\ (pc = "loop") ~> (pc = "done")
    /\ [](pc = "done" => \A k \in Positions : outcome[k] \in Terminal)
    /\ [][ (pc # "load" /\ run' = run) =>
              \A k \in Positions :
                  outcome'[k] # outcome[k] => << outcome[k], outcome'[k] >> \in OutcomePath ]_vars

\* A run has ended; its first item failed and its second was saved.
C17_Witness ==
    /\ pc = "done"
    /\ exit_code = "0"
    /\ Len(ipr_accessions) = 2
    /\ outcome[1] = "FAILED"
    /\ outcome[2] = "SAVED"

\* C18: one call of safe_request issues at most MAX_RETRIES GETs, the one
\* awaiting its answer included, and a 200 is the last thing the call does:
\* no GET and no sleep follows it, and it is what the call returns.
C18_AtMostMaxRetriesAndStopAt200 ==
    /\ Len(Gots(log)) + in_flight <= MAX_RETRIES
    /\ \A k \in 1..Len(log) :
           log[k] = Get("200") =>
               /\ k = Len(log)
               /\ pc = "handle"
               /\ in_flight = 0
               /\ response # None
               /\ response.status_code = 200

\* The last GET the limit allows was answered 200.
C18_Witness ==
    /\ pc = "handle"
    /\ MAX_RETRIES >= 2
    /\ Len(Gots(log)) = MAX_RETRIES
    /\ log[Len(log)] = Get("200")

\* C19: a step of a download run changes the directory only at the file of
\* the current accession, and only after safe_request returned a 200 response
\* for it whose body is JSON; a file is being written only in that case.
C19_WritesOnlyParsed200 ==
    [][ (files' # files \/ pc' \in { "open", "dump" }) =>
            /\ i \in Positions
            /\ outcome[i] = "FETCHING"
            /\ response # None
            /\ response.status_code = 200
            /\ response.body # "notjson"
            /\ \A n \in (DOMAIN files \cup DOMAIN files') \ { OutputPath(CurrentAccession) } :
                   /\ n \in DOMAIN files
                   /\ n \in DOMAIN files'
                   /\ files'[n] = files[n] ]_vars

\* A file that was not there when the run began holds the array the remote
\* answered with.
C19_Witness ==
    /\ pc = "stats"
    /\ response # None
    /\ response.body = "array"
    /\ OutputPath(CurrentAccession) \notin DOMAIN files0
    /\ Exists(OutputPath(CurrentAccession))
    /\ files[OutputPath(CurrentAccession)] = Complete("array")

\* The delay of a failed attempt's category: TIMEOUT_DELAY for a 408,
\* RETRY_DELAY for any other status and for an exception.
CategoryDelay(got) == IF got = "408" THEN "TIMEOUT_DELAY" ELSE "RETRY_DELAY"

\* C20: in a call of safe_request every GET that was not answered 200 is
\* followed at once by the sleep of its category's delay, the last GET that
\* MAX_RETRIES allows included; a call that returns None has slept exactly
\* MAX_RETRIES delays, one after each of its MAX_RETRIES GETs.
C20_EveryFailedAttemptSleeps ==
    /\ \A k \in 1..Len(log) :
           (log[k].ev = "GET" /\ log[k].got # "200") =>
               IF k = Len(log)
                 THEN pc = "sleep" /\ delay = CategoryDelay(log[k].got)
                 ELSE log[k + 1] = Slept(CategoryDelay(log[k].got))
    /\ (pc = "handle" /\ response = None) =>
           /\ Len(Gots(log)) = MAX_RETRIES
           /\ Len(Delays(log)) = MAX_RETRIES
           /\ Len(log) = 2 * MAX_RETRIES
           /\ MAX_RETRIES > 0 => log[Len(log)].ev = "sleep"

\* A call gave up after a 408 first and a timeout exception last.
C20_Witness ==
    /\ pc = "handle"
    /\ response = None
    /\ MAX_RETRIES >= 2
    /\ Len(Delays(log)) = MAX_RETRIES
    /\ Gots(log)[1] = "408"
    /\ Gots(log)[MAX_RETRIES] = "Timeout"

====
